---- MODULE Spec2Model ----
(***************************************************************************)
(* Model of uwu: the response sanitizer (sanitizeResponse, lastMatched,    *)
(* findLastCommand), the provider dispatch of generateCommand, getConfig   *)
(* and the start of the local Llama.cpp server.                            *)
(*                                                                         *)
(* A JavaScript string is a sequence of one-character strings.  Regular    *)
(* expressions are modelled by the matches they produce on such sequences. *)
(* String indices are 1-based here (JavaScript index + 1).                 *)
(***************************************************************************)
EXTENDS Integers, Sequences, FiniteSets, TLC

VARIABLES
  pc,               \* where the program is
  cfgType,          \* config.type
  hasKey,           \* whether config.apiKey is set
  raw,              \* the provider's raw text
  content,          \* sanitizeResponse: its argument
  strippedContent,  \* sanitizeResponse: the text after each stage
  lastOne,          \* lastMatched: the last captured group, or undefined
  lines,            \* the trimmed non-empty lines
  result,           \* the value returned
  output,           \* what main prints
  err,              \* the error thrown or reported
  firstResult       \* the result of an earlier call on the same text

VARIABLES
  regex,            \* lastMatched: the RegExp object (source, lastIndex)
  matched,          \* lastMatched: what regex.exec returned
  matches           \* lastMatched: how many matches the loop has found

VARIABLES
  configFile,       \* getConfig: config.json on disk
  fsFault,          \* getConfig: the file system call that throws, if any
  envApiKey,        \* process.env.OPENAI_API_KEY
  config,           \* getConfig: the configuration returned
  errors,           \* the messages given to console.error
  exitCode          \* the status process.exit was called with

VARIABLES
  calls,            \* the calls of sanitizeResponse in progress: their locals
  heap              \* the RegExp objects the calls hold: their lastIndex

VARIABLES
  isRunning,        \* LlamaCppServerManager.isRunning
  serverProcess,    \* LlamaCppServerManager.serverProcess
  retries,          \* startServer: the retries left
  polls             \* startServer: the health polls made after the spawn

mainVars == <<cfgType, hasKey, raw, content, strippedContent, lastOne, lines,
              result, output, err, firstResult>>

scanVars == <<regex, matched, matches>>

configVars == <<configFile, fsFault, envApiKey, config, errors, exitCode>>

callVars == <<calls, heap>>

serverVars == <<isRunning, serverProcess, retries, polls>>

vars == <<pc, mainVars, scanVars, configVars, callVars, serverVars>>

----------------------------------------------------------------------------
(* Character classes of the regular expressions.                           *)

UpperSeq == <<"A","B","C","D","E","F","G","H","I","J","K","L","M",
              "N","O","P","Q","R","S","T","U","V","W","X","Y","Z">>

LowerSeq == <<"a","b","c","d","e","f","g","h","i","j","k","l","m",
              "n","o","p","q","r","s","t","u","v","w","x","y","z">>

UpperCase == {UpperSeq[i] : i \in 1..26}

LowerCase == {LowerSeq[i] : i \in 1..26}

Digits == {"0","1","2","3","4","5","6","7","8","9"}

\* \w
WordChars == UpperCase \cup LowerCase \cup Digits \cup {"_"}

\* \s, and the characters String.prototype.trim removes
WhiteSpace == {" ", "\t", "\n", "\r"}

\* canonical form of a character under the i flag
ToLower(c) ==
  IF c \in UpperCase
    THEN LowerSeq[CHOOSE i \in 1..26 : UpperSeq[i] = c]
    ELSE c

\* the least element of a non-empty set of integers
MinOf(S) == CHOOSE x \in S : \A y \in S : x <= y

\* the literal lit occurs in s at index i (letters compared as given)
MatchAt(s, i, lit) ==
  /\ i >= 1
  /\ i + Len(lit) - 1 <= Len(s)
  /\ \A k \in 1..Len(lit) : s[i + k - 1] = lit[k]

\* the literal lit (lower case) occurs in s at index i, ignoring letter case
MatchAtIgnoreCase(s, i, lit) ==
  /\ i >= 1
  /\ i + Len(lit) - 1 <= Len(s)
  /\ \A k \in 1..Len(lit) : ToLower(s[i + k - 1]) = lit[k]

\* \s* from index i: the index of the first non-whitespace character at or
\* after i (Len(s)+1 when there is none)
RECURSIVE SkipSpace(_, _)
SkipSpace(s, i) ==
  IF i <= Len(s) /\ s[i] \in WhiteSpace THEN SkipSpace(s, i + 1) ELSE i

\* index of the first character c at or after i, 0 when there is none
IndexOfChar(s, c, i) ==
  LET at == {j \in i..Len(s) : s[j] = c}
  IN  IF at = {} THEN 0 ELSE MinOf(at)

\* index of the first occurrence of the literal lit at or after i, 0 if none
IndexOfLit(s, lit, i) ==
  LET at == {j \in i..Len(s) : MatchAt(s, j, lit)}
  IN  IF at = {} THEN 0 ELSE MinOf(at)

\* String.prototype.trim
RECURSIVE TrimEnd(_)
TrimEnd(s) ==
  IF s # <<>> /\ s[Len(s)] \in WhiteSpace
    THEN TrimEnd(SubSeq(s, 1, Len(s) - 1))
    ELSE s

\* a variant of Trim that is trimStart: whitespace at the end is kept
TrimStartOnly(s) == SubSeq(s, SkipSpace(s, 1), Len(s))

Trim(s) ==
  LET b == SkipSpace(s, 1)
  IN  IF b > Len(s) THEN <<>> ELSE TrimEnd(SubSeq(s, b, Len(s)))

----------------------------------------------------------------------------
\* The think pattern  /<\s*think\b[^>]*>[\s\S]*?<\s*\/\s*think\s*>/gi

ThinkWord == <<"t","h","i","n","k">>

\* <\s*think\b[^>]*> at index i: the index just after the tag's '>', 0 when
\* the opening tag does not match at i
OpenTagEnd(s, i) ==
  IF ~(i >= 1 /\ i <= Len(s) /\ s[i] = "<") THEN 0
  ELSE LET j == SkipSpace(s, i + 1)
           k == j + Len(ThinkWord)
       IN  IF ~MatchAtIgnoreCase(s, j, ThinkWord) THEN 0
           ELSE IF k <= Len(s) /\ s[k] \in WordChars THEN 0
           ELSE LET g == IndexOfChar(s, ">", k)
                IN  IF g = 0 THEN 0 ELSE g + 1

\* <\s*\/\s*think\s*> at index i: the index just after it, 0 when no match
CloseTagEnd(s, i) ==
  IF ~(i >= 1 /\ i <= Len(s) /\ s[i] = "<") THEN 0
  ELSE LET j == SkipSpace(s, i + 1)
       IN  IF ~(j <= Len(s) /\ s[j] = "/") THEN 0
           ELSE LET k == SkipSpace(s, j + 1)
                    e == SkipSpace(s, k + Len(ThinkWord))
                IN  IF ~MatchAtIgnoreCase(s, k, ThinkWord) THEN 0
                    ELSE IF e <= Len(s) /\ s[e] = ">" THEN e + 1
                    ELSE 0

\* index of the first closing tag at or after i, 0 when there is none
FirstCloseTag(s, i) ==
  LET at == {j \in i..Len(s) : CloseTagEnd(s, j) # 0}
  IN  IF at = {} THEN 0 ELSE MinOf(at)

\* a variant of ThinkMatchEnd with a greedy body ([\s\S]* for [\s\S]*?): the
\* match runs to the last closing tag
ThinkMatchEndGreedy(s, i) ==
  LET o == OpenTagEnd(s, i)
      closes == {c \in o..Len(s) : CloseTagEnd(s, c) # 0}
  IN  IF o = 0 \/ closes = {} THEN 0
      ELSE CloseTagEnd(s, CHOOSE c \in closes : \A d \in closes : d <= c)

\* a variant of ThinkMatchEnd that lets an opening tag without closing tag
\* match to the end of the input
ThinkMatchEndOrEof(s, i) ==
  LET o == OpenTagEnd(s, i)
  IN  IF o = 0 THEN 0
      ELSE LET c == FirstCloseTag(s, o)
           IN  IF c = 0 THEN Len(s) + 1 ELSE CloseTagEnd(s, c)

\* the whole pattern at index i ([\s\S]*? is lazy: it stops at the first
\* closing tag): the index just after the match, 0 when no match
ThinkMatchEnd(s, i) ==
  LET o == OpenTagEnd(s, i)
  IN  IF o = 0 THEN 0
      ELSE LET c == FirstCloseTag(s, o)
           IN  IF c = 0 THEN 0 ELSE CloseTagEnd(s, c)

\* index of the first match that starts at or after i, 0 when there is none
NextThink(s, i) ==
  LET at == {j \in i..Len(s) : ThinkMatchEnd(s, j) # 0}
  IN  IF at = {} THEN 0 ELSE MinOf(at)

\* the matches of the g-flagged pattern from index i on, left to right and
\* not overlapping: a sequence of <<first index, index after the match>>
RECURSIVE ThinkMatches(_, _)
ThinkMatches(s, i) ==
  LET m == NextThink(s, i)
  IN  IF m = 0 THEN <<>>
      ELSE <<(<<m, ThinkMatchEnd(s, m)>>)>> \o ThinkMatches(s, ThinkMatchEnd(s, m))

\* s from index i on with the matches ms cut out
RECURSIVE CutMatches(_, _, _)
CutMatches(s, i, ms) ==
  IF ms = <<>> THEN SubSeq(s, i, Len(s))
  ELSE SubSeq(s, i, Head(ms)[1] - 1) \o CutMatches(s, Head(ms)[2], Tail(ms))

\* content.replace(thinkPattern, "")
StripThink(s) == CutMatches(s, 1, ThinkMatches(s, 1))

----------------------------------------------------------------------------
\* lastMatched and the code block pattern  /FENCE(?:[^\n]*)\n([\s\S]*?)FENCE/g (FENCE: three backticks)

\* the grave accent (backtick) character; it is written by name because a
\* TLA+ string cannot hold it
Backtick == "backtick"

Fence == <<Backtick, Backtick, Backtick>>

\* FENCE(?:[^\n]*)\n at index i: the index where the captured body starts
\* (just after the first newline that follows the opening fence), 0 if none
FenceBodyStart(s, i) ==
  IF ~MatchAt(s, i, Fence) THEN 0
  ELSE LET nl == IndexOfChar(s, "\n", i + Len(Fence))
       IN  IF nl = 0 THEN 0 ELSE nl + 1

\* the whole pattern at index i: the index of the closing fence (the first
\* FENCE at or after the body start, the body being lazy), 0 when no match
FenceCloseAt(s, i) ==
  LET b == FenceBodyStart(s, i)
  IN  IF b = 0 THEN 0 ELSE IndexOfLit(s, Fence, b)

\* index of the first match that starts at or after i, 0 when there is none
NextFence(s, i) ==
  LET at == {j \in i..Len(s) : FenceCloseAt(s, j) # 0}
  IN  IF at = {} THEN 0 ELSE MinOf(at)

Undefined == [defined |-> FALSE, value |-> <<>>]

Defined(v) == [defined |-> TRUE, value |-> v]

\* codeBlockRegex.exec(content) with the pattern's cursor at lastIndex
\* (0-based): the match (null when found is FALSE), its captured group, and
\* the cursor afterwards (just after the match; 0 after a failed search)
RegexExec(s, lastIndex) ==
  LET i == NextFence(s, lastIndex + 1)
  IN  IF i = 0
        THEN [found |-> FALSE, group |-> <<>>, lastIndex |-> 0]
        ELSE [found |-> TRUE,
              group |-> SubSeq(s, FenceBodyStart(s, i), FenceCloseAt(s, i) - 1),
              lastIndex |-> FenceCloseAt(s, i) + Len(Fence) - 1]

\* the while loop of lastMatched, the pattern's cursor at lastIndex
RECURSIVE LastMatchedLoop(_, _, _)
LastMatchedLoop(s, lastIndex, last) ==
  LET m == RegexExec(s, lastIndex)
  IN  IF m.found
        THEN LastMatchedLoop(s, m.lastIndex, Defined(m.group))
        ELSE last

\* lastMatched(codeBlockRegex, content), the pattern freshly created
LastMatched(s) == LastMatchedLoop(s, 0, Undefined)

\* JavaScript truthiness of a string-or-undefined value
Truthy(v) == v.defined /\ v.value # <<>>

\* strippedContent.replace(/BACKTICK/g, "")
\* a variant of RemoveBackticks without the g flag: the first backtick alone
\* is removed
RemoveFirstBacktick(s) ==
  LET b == IndexOfChar(s, Backtick, 1)
  IN  IF b = 0 THEN s ELSE SubSeq(s, 1, b - 1) \o SubSeq(s, b + 1, Len(s))

NotBacktick(c) == c # Backtick

RemoveBackticks(s) == SelectSeq(s, NotBacktick)

\* lastMatched(codeBlockRegex, strippedContent) ||
\*   strippedContent.replace(/BACKTICK/g, "")
ExtractCode(s) ==
  IF Truthy(LastMatched(s)) THEN LastMatched(s).value ELSE RemoveBackticks(s)

----------------------------------------------------------------------------
\* The patterns lastMatched is called with, and regex.exec on them

\* A pattern is read as: the literal open; when line is TRUE, the rest of
\* that line through its newline ((?:[^\n]*)\n); a lazy captured body
\* (([\s\S]*?)); the literal close.  A pattern of kind "literal" is the
\* literal open alone, without capture group; one of kind "spaces" is a
\* captured run of whitespace that may be empty.

\* /FENCE(?:[^\n]*)\n([\s\S]*?)FENCE/g
CodeBlockPattern ==
  [kind |-> "delimited", open |-> Fence, line |-> TRUE, close |-> Fence]

\* /<p>([\s\S]*?)<\/p>/g
ParagraphPattern ==
  [kind |-> "delimited", open |-> <<"<","p",">">>, line |-> FALSE,
   close |-> <<"<","/","p",">">>]

\* /FENCE([\s\S]*?)FENCE/g
InlineFencePattern ==
  [kind |-> "delimited", open |-> Fence, line |-> FALSE, close |-> Fence]

\* /test/g
TestPattern ==
  [kind |-> "literal", open |-> <<"t","e","s","t">>, line |-> FALSE,
   close |-> <<>>]

\* /(\s*)/g: a global pattern with one capture group that can match the
\* empty string
SpacesPattern ==
  [kind |-> "spaces", open |-> <<>>, line |-> FALSE, close |-> <<>>]

Patterns ==
  {CodeBlockPattern, ParagraphPattern, InlineFencePattern, TestPattern,
   SpacesPattern}

NoMatch == [found |-> FALSE, end |-> 0, group |-> Undefined]

\* the match of pattern p that starts at index i of s: whether there is one,
\* the index just after it, and its captured group (matched[1])
MatchAtIndex(p, s, i) ==
  CASE p.kind = "delimited" ->
         LET nl == IndexOfChar(s, "\n", i + Len(p.open))
             b == IF ~p.line THEN i + Len(p.open)
                  ELSE IF nl = 0 THEN 0 ELSE nl + 1
             c == IF b = 0 THEN 0 ELSE IndexOfLit(s, p.close, b)
         IN  IF MatchAt(s, i, p.open) /\ c # 0
               THEN [found |-> TRUE, end |-> c + Len(p.close),
                     group |-> Defined(SubSeq(s, b, c - 1))]
               ELSE NoMatch
    [] p.kind = "literal" ->
         IF MatchAt(s, i, p.open)
           THEN [found |-> TRUE, end |-> i + Len(p.open), group |-> Undefined]
           ELSE NoMatch
    [] p.kind = "spaces" ->
         [found |-> TRUE, end |-> SkipSpace(s, i),
          group |-> Defined(SubSeq(s, i, SkipSpace(s, i) - 1))]

\* regex.exec(s) for a global pattern p whose cursor is lastIndex (0-based):
\* the search starts at the cursor and takes the first index with a match;
\* the cursor moves to the end of the match, or to 0 when nothing is found
Exec(p, s, lastIndex) ==
  LET at == {i \in (lastIndex + 1)..(Len(s) + 1) : MatchAtIndex(p, s, i).found}
  IN  IF at = {}
        THEN [found |-> FALSE, index |-> 0, group |-> Undefined,
              lastIndex |-> 0]
        ELSE LET m == MatchAtIndex(p, s, MinOf(at))
             IN  [found |-> TRUE, index |-> MinOf(at) - 1, group |-> m.group,
                  lastIndex |-> m.end - 1]

----------------------------------------------------------------------------
\* .split(/\r?\n/).map((l) => l.trim()).filter(Boolean)

\* the pieces of s from index start on: each ends before the next \n, or
\* before the \r in front of it
RECURSIVE SplitFrom(_, _)
SplitFrom(s, start) ==
  LET nl == IndexOfChar(s, "\n", start)
  IN  IF nl = 0 THEN <<SubSeq(s, start, Len(s))>>
      ELSE IF nl - 1 >= start /\ s[nl - 1] = "\r"
        THEN <<SubSeq(s, start, nl - 2)>> \o SplitFrom(s, nl + 1)
      ELSE <<SubSeq(s, start, nl - 1)>> \o SplitFrom(s, nl + 1)

SplitLines(s) == SplitFrom(s, 1)

NonEmpty(l) == l # <<>>

TrimmedLines(s) ==
  LET parts == SplitLines(s)
  IN  SelectSeq([k \in 1..Len(parts) |-> Trim(parts[k])], NonEmpty)

----------------------------------------------------------------------------
(* findLastCommand                                                         *)

MaxLineLength == 2000

Keywords == { <<"u","s","e","r">>,
              <<"w","a","n","t">>,
              <<"s","h","o","u","l","d">>,
              <<"s","h","o","u","l","d","n","'","t">>,
              <<"t","h","i","n","k">>,
              <<"e","x","p","l","a","i","n">>,
              <<"e","r","r","o","r">>,
              <<"n","o","t","e">> }

\* \b at the gap just before index i
WordBoundary(s, i) ==
  LET before == i - 1 >= 1 /\ i - 1 <= Len(s) /\ s[i - 1] \in WordChars
      after  == i >= 1 /\ i <= Len(s) /\ s[i] \in WordChars
  IN  before # after

\* /^[A-Z][\s\S]*[.?!]$/.test(line)
SentenceShape(line) ==
  /\ Len(line) >= 2
  /\ line[1] \in UpperCase
  /\ line[Len(line)] \in {".", "?", "!"}

\* /\b(user|want|should|shouldn't|think|explain|error|note)\b/i.test(line)
HasKeyword(line) ==
  \E i \in 1..Len(line) :
    /\ ToLower(line[i]) \in {"u", "w", "s", "t", "e", "n"}
    /\ \E w \in Keywords :
         /\ MatchAtIgnoreCase(line, i, w)
         /\ WordBoundary(line, i)
         /\ WordBoundary(line, i + Len(w))

LooksLikeSentence(line) == SentenceShape(line) \/ HasKeyword(line)

Returned(v) == [threw |-> FALSE, value |-> v]

\* TypeError: undefined is not an object
Threw == [threw |-> TRUE, value |-> <<>>]

\* a variant of FindLastCommandFrom without the fallback to the last line
RECURSIVE FindLastCommandNoFallback(_, _)
FindLastCommandNoFallback(ls, i) ==
  IF i < 1
    THEN Returned(<<>>)
  ELSE IF ~LooksLikeSentence(ls[i]) /\ Len(ls[i]) <= MaxLineLength
    THEN Returned(Trim(ls[i]))
  ELSE FindLastCommandNoFallback(ls, i - 1)

\* a variant of FindLastCommandFrom that accepts a line only when it is
\* shorter than MaxLineLength (< for <=)
RECURSIVE FindLastCommandStrict(_, _)
FindLastCommandStrict(ls, i) ==
  IF i < 1
    THEN IF ls = <<>> THEN Threw ELSE Returned(Trim(ls[Len(ls)]))
  ELSE IF ~LooksLikeSentence(ls[i]) /\ Len(ls[i]) < MaxLineLength
    THEN Returned(Trim(ls[i]))
  ELSE FindLastCommandStrict(ls, i - 1)

\* the for loop of findLastCommand at index i (1-based), then the fallback
\* lines.at(-1)!.trim(), which throws when lines is empty
RECURSIVE FindLastCommandFrom(_, _)
FindLastCommandFrom(ls, i) ==
  IF i < 1
    THEN IF ls = <<>> THEN Threw ELSE Returned(Trim(ls[Len(ls)]))
  ELSE IF ~LooksLikeSentence(ls[i]) /\ Len(ls[i]) <= MaxLineLength
    THEN Returned(Trim(ls[i]))
  ELSE FindLastCommandFrom(ls, i - 1)

FindLastCommand(ls) == FindLastCommandFrom(ls, Len(ls))

\* a variant of SelectCommand whose guard is lines.length > 1
SelectCommandOffByOne(ls) ==
  IF Len(ls) > 1 THEN FindLastCommand(ls) ELSE Returned(<<>>)

\* a variant of SelectCommand without the guard on the number of lines
SelectCommandUnguarded(ls) == FindLastCommand(ls)

\* lines.length !== 0 ? findLastCommand(lines) : ""
SelectCommand(ls) == IF Len(ls) # 0 THEN FindLastCommand(ls) ELSE Returned(<<>>)

\* sanitizeResponse as a whole
SanitizeResponse(s) ==
  IF s = <<>> THEN Returned(<<>>)
  ELSE SelectCommand(TrimmedLines(ExtractCode(StripThink(s))))

----------------------------------------------------------------------------
\* index.ts, main: the last cleanup of the command before it is printed

QuoteChars == {"\"", "'", Backtick}

\* '.' of a pattern without the s flag
LineTerminators == {"\n", "\r"}

\* /^FENCE.*?\n/ : the index of the newline that ends the match, 0 if none
FenceLineEnd(s, i) ==
  LET at == {j \in i..Len(s) : s[j] \in LineTerminators}
  IN  IF at = {} THEN 0
      ELSE IF s[MinOf(at)] = "\n" THEN MinOf(at)
      ELSE 0

\* command.replace(/^FENCE.*?\n|FENCE$/g, "")
StripOuterFences(s) ==
  LET p == IF MatchAt(s, 1, Fence) THEN FenceLineEnd(s, Len(Fence) + 1) ELSE 0
      q == IF MatchAt(s, Len(s) - Len(Fence) + 1, Fence)
                /\ Len(s) - Len(Fence) + 1 > p
             THEN Len(s) - Len(Fence)
             ELSE Len(s)
  IN  SubSeq(s, p + 1, q)

RECURSIVE SkipQuotes(_, _)
SkipQuotes(s, i) ==
  IF i <= Len(s) /\ s[i] \in QuoteChars THEN SkipQuotes(s, i + 1) ELSE i

RECURSIVE DropQuotesAtEnd(_)
DropQuotesAtEnd(s) ==
  IF s # <<>> /\ s[Len(s)] \in QuoteChars
    THEN DropQuotesAtEnd(SubSeq(s, 1, Len(s) - 1))
    ELSE s

\* .replace(/^["'BACKTICK]+|["'BACKTICK]+$/g, "")
StripQuotes(s) == DropQuotesAtEnd(SubSeq(s, SkipQuotes(s, 1), Len(s)))

CleanCommand(s) == Trim(StripQuotes(StripOuterFences(s)))

----------------------------------------------------------------------------
\* Inputs: provider replies and line arrays

\* the longest provider reply, counted in fragments
MaxFrags == 4

\* the longest reply in a run of the whole program, counted in fragments
MaxReplyFrags == 3

\* the longest array of lines handed to findLastCommand
MaxLines == 3

Fragments ==
  { <<"<","t","h","i","n","k",">">>,
    <<"<","/","t","h","i","n","k",">">>,
    Fence,
    <<Backtick>>,
    <<"\n">>,
    <<" ">>,
    <<"l","s">>,
    <<"O","k",".">>,
    <<"u","s","e","r">> }

\* every concatenation of at most n fragments
RECURSIVE FragStrings(_)
FragStrings(n) ==
  IF n = 0 THEN {<<>>}
  ELSE LET shorter == FragStrings(n - 1)
       IN  shorter \cup {p \o f : p \in shorter, f \in Fragments}

\* a line one character longer than findLastCommand accepts
LongLine == [i \in 1..(MaxLineLength + 1) |-> "x"]

\* a line of exactly the accepted length
FullLine == [i \in 1..MaxLineLength |-> "x"]

\* a reasoning trace, then the command
ThinkExample ==
  <<"<","t","h","i","n","k",">","r","e","a","s","o","n","i","n","g"," ","h",
    "e","r","e","<","/","t","h","i","n","k",">","\n","l","s"," ","-","l",
    "a">>

\* two think blocks: attributes, spaces, upper case, several lines
ThinkMultiLine ==
  <<"<"," ","T","H","I","N","K"," ","a","=","\"","b","\"",">","o","n","e",
    "\n","t","w","o","<"," ","/"," ","T","h","i","n","k"," ",">","l","s",
    "\n","<","t","h","i","n","k",">","x","<","/","t","h","i","n","k",">">>

\* a think block inside the letters of another opening tag
ThinkNested ==
  <<"<","t","h","i","<","t","h","i","n","k",">","x","<","/","t","h","i","n",
    "k",">","n","k",">","y","<","/","t","h","i","n","k",">","l","s">>

\* a block whose body holds an opening tag that runs into the closing tag
ThinkOverlap ==
  <<"<","t","h","i","n","k",">","a","<","t","h","i","n","k"," ","<","/","t",
    "h","i","n","k",">">>

\* two fenced blocks
TwoFences ==
  <<Backtick,Backtick,Backtick,"\n","e","c","h","o"," ","a","\n",Backtick,
    Backtick,Backtick,"\n",Backtick,Backtick,Backtick,"\n","e","c","h","o",
    " ","b","\n",Backtick,Backtick,Backtick>>

\* a fenced block with a language tag, prose around it
TaggedFence ==
  <<"R","u","n",":","\n",Backtick,Backtick,Backtick,"b","a","s","h","\n",
    "l","s"," ","-","l","a","\n",Backtick,Backtick,Backtick,"\n","O","k",
    ".">>

\* a fenced block followed by a fenced block with an empty body
EmptyLastFence ==
  <<Backtick,Backtick,Backtick,"\n","l","s","\n",Backtick,Backtick,Backtick,
    "\n",Backtick,Backtick,Backtick,"b","a","s","h","\n",Backtick,Backtick,
    Backtick>>

\* fences without a newline after the opening backticks
InlineFences ==
  <<Backtick,Backtick,Backtick,"e","c","h","o"," ","a",Backtick,Backtick,
    Backtick," ",Backtick,Backtick,Backtick,"e","c","h","o"," ","b",
    Backtick,Backtick,Backtick>>

\* inline backticks, no fence
InlineBackticks ==
  <<Backtick,"l","s",Backtick," ","i","s"," ","t","h","e"," ","c","o","m",
    "m","a","n","d">>

\* a fenced command that itself holds backticks
FencedBackticks ==
  <<Backtick,Backtick,Backtick,"\n","e","c","h","o"," ",Backtick,"d","a",
    "t","e",Backtick,"\n",Backtick,Backtick,Backtick>>

\* CR LF line ends, prose after the command
CrLfReply ==
  <<"S","u","r","e","!","\r","\n","l","s"," ","-","l","a","\r","\n","T","h",
    "i","s"," ","s","h","o","u","l","d"," ","w","o","r","k",".">>

Examples ==
  { ThinkExample, ThinkMultiLine, ThinkNested, ThinkOverlap, TwoFences,
    TaggedFence,
    EmptyLastFence, InlineFences, InlineBackticks, FencedBackticks, CrLfReply,
    LongLine, <<"l","s","\n">> \o LongLine, FullLine \o <<"\n","O","k",".">> }

\* the replies sanitizeResponse is called with directly
SanitizeInputs == FragStrings(MaxFrags) \cup Examples

\* the replies a provider gives in a run of the whole program
Replies == FragStrings(MaxReplyFrags) \cup Examples

\* the longest content handed to lastMatched, counted in fragments
MaxScanFrags == 3

\* the most matches the loop of lastMatched is followed through
MaxMatches == 8

ScanFragments ==
  { <<"<","p",">">>,
    <<"<","/","p",">">>,
    Fence,
    <<"\n">>,
    <<" ">>,
    <<"l","s">>,
    <<"t","e","s","t">> }

\* every concatenation of at most n of these fragments
RECURSIVE ScanStrings(_)
ScanStrings(n) ==
  IF n = 0 THEN {<<>>}
  ELSE LET shorter == ScanStrings(n - 1)
       IN  shorter \cup {p \o f : p \in shorter, f \in ScanFragments}

\* the content of the test with three paragraphs
ThreeParagraphs ==
  <<"<","d","i","v",">","<","p",">","F","i","r","s","t"," ","p","a","r","a",
    "g","r","a","p","h",".","<","/","p",">","<","p",">","S","e","c","o","n",
    "d"," ","p","a","r","a","g","r","a","p","h",".","<","/","p",">","<","p",
    ">","T","h","i","r","d"," ","p","a","r","a","g","r","a","p","h",".","<",
    "/","p",">","<","/","d","i","v",">">>

\* the content of the test with one match
SingleInlineFence ==
  <<Backtick,Backtick,Backtick,"c","o","n","s","o","l","e",".","l","o","g",
    "(","\"","h","e","l","l","o"," ","w","o","r","l","d","\"",")",Backtick,
    Backtick,Backtick>>

\* the content of the test without match
NoParagraph ==
  <<"<","d","i","v",">","<","s","p","a","n",">","N","o"," ","p","a","r","a",
    "g","r","a","p","h","s"," ","h","e","r","e","<","/","s","p","a","n",">",
    "<","/","d","i","v",">">>

\* a paragraph followed by an empty one
EmptyLastParagraph ==
  <<"<","p",">","l","s","<","/","p",">","<","p",">","<","/","p",">">>

\* two blocks back to back, the closing fence of one next to the opening
\* fence of the other
AdjacentInlineFences ==
  <<Backtick,Backtick,Backtick,"a",Backtick,Backtick,Backtick,Backtick,
    Backtick,Backtick,"b",Backtick,Backtick,Backtick>>

ScanExamples ==
  { ThreeParagraphs, SingleInlineFence, NoParagraph, EmptyLastParagraph,
    AdjacentInlineFences, TwoFences, TaggedFence, EmptyLastFence }

\* the contents lastMatched is called with
ScanInputs == ScanStrings(MaxScanFrags) \cup ScanExamples

\* how many calls of sanitizeResponse are in progress together
MaxCalls == 2

\* the replies those calls are given
CallInputs ==
  { <<>>, ThinkExample, TwoFences, EmptyLastFence, InlineBackticks,
    FencedBackticks }

SampleLines ==
  { <<"l","s">>,
    <<" ","l","s"," ">>,
    <<"O","k",".">>,
    <<"O","k">>,
    <<"o","k","?">>,
    <<"c","d"," ","/","u","s","e","r">>,
    <<"N","o","t","e","_","1">>,
    <<"S","H","O","U","L","D","N","'","T">>,
    LongLine,
    FullLine }

\* every array of at most n sample lines
RECURSIVE LineArrays(_)
LineArrays(n) ==
  IF n = 0 THEN {<<>>}
  ELSE LET shorter == LineArrays(n - 1)
       IN  shorter \cup {Append(a, l) : a \in shorter, l \in SampleLines}

----------------------------------------------------------------------------
\* generateCommand and main (index.ts)

----------------------------------------------------------------------------
\* getConfig (src/config_utils.ts; index.ts holds the same function)

\* A JavaScript value carries its type and, in the field of that type, what
\* it holds: s for a string, b for a boolean, n for a number, o for an
\* object, which is a function from its keys to values.

\* {}
EmptyObject == [k \in {} |-> 0]

Js(t, s, b, n, o) == [t |-> t, s |-> s, b |-> b, n |-> n, o |-> o]

Str(s) == Js("string", s, FALSE, 0, EmptyObject)

Bool(b) == Js("boolean", "", b, 0, EmptyObject)

Num(n) == Js("number", "", FALSE, n, EmptyObject)

Obj(o) == Js("object", "", FALSE, 0, o)

JsNull == Js("null", "", FALSE, 0, EmptyObject)

JsUndefined == Js("undefined", "", FALSE, 0, EmptyObject)

\* whether a value counts as true in a condition and in a || b
JsTruthy(j) ==
  CASE j.t = "string" -> j.s # ""
    [] j.t = "boolean" -> j.b
    [] j.t = "number" -> j.n # 0
    [] j.t = "object" -> TRUE
    [] OTHER -> FALSE

\* a || b
Or(a, b) == IF JsTruthy(a) THEN a ELSE b

\* o[k]: undefined when o has no key k
Get(o, k) == IF k \in DOMAIN o THEN o[k] ELSE JsUndefined

\* {...a, ...b}
Spread(a, b) ==
  [k \in DOMAIN a \cup DOMAIN b |-> IF k \in DOMAIN b THEN b[k] ELSE a[k]]

DEFAULT_CONTEXT_CONFIG ==
  [enabled |-> Bool(FALSE), maxHistoryCommands |-> Num(10)]

DEFAULT_CONFIG ==
  [type |-> Str("OpenAI"), model |-> Str("gpt-4.1"),
   context |-> Obj(DEFAULT_CONTEXT_CONFIG)]

\* what createConfigFile writes
DefaultConfigToFile ==
  Spread(DEFAULT_CONFIG, [apiKey |-> Str(""), baseURL |-> JsNull])

\* a variant of MergeConfig that takes the user's context as it is
MergeConfigShallow(userConfig, env) ==
  Spread(Spread(DEFAULT_CONFIG, userConfig),
         [apiKey |-> Or(Get(userConfig, "apiKey"), env)])

\* the configuration getConfig builds from the parsed file and the
\* environment variable: mergedConfig
MergeConfig(userConfig, env) ==
  LET mergedConfig ==
        Spread(Spread(DEFAULT_CONFIG, userConfig),
               [apiKey |-> Or(Get(userConfig, "apiKey"), env)])
  IN  IF JsTruthy(mergedConfig.context)
        THEN [mergedConfig EXCEPT
                !.context = Obj(Spread(DEFAULT_CONTEXT_CONFIG,
                                       mergedConfig.context.o))]
        ELSE [mergedConfig EXCEPT !.context = Obj(DEFAULT_CONTEXT_CONFIG)]

CreateErrorMessages ==
  <<"Error creating the configuration file at:",
    "Please check your permissions for the directory.">>

ReadErrorMessages ==
  <<"Error reading or parsing the configuration file at:",
    "Please ensure it is a valid JSON file.">>

\* what config.json may hold: pieces of a user's configuration
UserConfigs ==
  LET TypeParts ==
        { EmptyObject,
          [type |-> Str("Gemini")],
          [type |-> Str("Claude"), model |-> Str("claude-3")] }
      ApiKeyParts ==
        { EmptyObject, [apiKey |-> Str("")], [apiKey |-> Str("123")],
          [apiKey |-> JsNull] }
      BaseUrlParts == { EmptyObject, [baseURL |-> JsNull] }
      ContextParts ==
        { EmptyObject,
          [context |-> JsNull],
          [context |-> Obj(EmptyObject)],
          [context |-> Obj([enabled |-> Bool(TRUE)])],
          [context |-> Obj([maxHistoryCommands |-> Num(5)])],
          [context |-> Obj([enabled |-> Bool(TRUE),
                            maxHistoryCommands |-> Num(5)])] }
  IN  { Spread(Spread(Spread(a, b), c), d) :
          a \in TypeParts, b \in ApiKeyParts, c \in BaseUrlParts,
          d \in ContextParts }

\* config.json as getConfig finds it: absent; present but readFileSync
\* throws; read but JSON.parse throws; or parsed, to null or to an object
ConfigFiles ==
  { [kind |-> "absent", value |-> JsUndefined],
    [kind |-> "unreadable", value |-> JsUndefined],
    [kind |-> "invalid", value |-> JsUndefined],
    [kind |-> "parsed", value |-> JsNull] }
  \cup { [kind |-> "parsed", value |-> Obj(u)] : u \in UserConfigs }

EnvApiKeys == { JsUndefined, Str("env-api-key") }

\* no RegExp object is handed to lastMatched
NoScan ==
  /\ regex = [source |-> "none", lastIndex |-> 0]
  /\ matched = [found |-> FALSE]
  /\ matches = 0

\* getConfig is not called
NoConfig ==
  /\ configFile = [kind |-> "none", value |-> JsUndefined]
  /\ fsFault = "none"
  /\ envApiKey = JsUndefined
  /\ config = JsUndefined
  /\ errors = <<>>
  /\ exitCode = -1

\* no call of sanitizeResponse runs beside the one of the main variables
NoCalls ==
  /\ calls = <<>>
  /\ heap = <<>>

\* the server manager as constructed
NoServer ==
  /\ isRunning = FALSE
  /\ serverProcess = "null"
  /\ retries = 0
  /\ polls = 0

ProviderTypes == {"OpenAI", "Custom", "Claude", "Gemini", "GitHub", "LlamaCpp"}

\* config.type is whatever config.json holds
ConfigTypes == ProviderTypes \cup {"Other"}

KeyedTypes == {"OpenAI", "Custom", "Claude", "Gemini"}

Locals == <<content, strippedContent, lastOne, lines>>

Init ==
  /\ pc = "generateCommand"
  /\ cfgType \in ConfigTypes
  /\ hasKey \in BOOLEAN
  /\ raw = Undefined
  /\ content = <<>>
  /\ strippedContent = <<>>
  /\ lastOne = Undefined
  /\ lines = <<>>
  /\ result = Undefined
  /\ output = Undefined
  /\ err = "none"
  /\ firstResult = Undefined
  /\ NoScan /\ NoConfig /\ NoCalls /\ NoServer

\* if (!config.apiKey) { console.error(...); process.exit(1); }
MissingApiKey ==
  /\ pc = "generateCommand"
  /\ cfgType \in KeyedTypes
  /\ ~hasKey
  /\ pc' = "exit1"
  /\ err' = "API key not found"
  /\ UNCHANGED <<cfgType, hasKey, raw, Locals, result, output, firstResult>>
  /\ UNCHANGED <<scanVars, configVars, callVars, serverVars>>

\* the provider call rejects; main catches it
RequestFails ==
  /\ pc = "generateCommand"
  /\ cfgType \in ProviderTypes
  /\ cfgType \in KeyedTypes => hasKey
  /\ pc' = "threw"
  /\ err' = "request failed"
  /\ UNCHANGED <<cfgType, hasKey, raw, Locals, result, output, firstResult>>
  /\ UNCHANGED <<scanVars, configVars, callVars, serverVars>>

\* return sanitizeResponse(String(raw)): the call is entered with reply
CallSanitize(reply) ==
  /\ raw' = Defined(reply)
  /\ content' = reply
  /\ pc' = "sanitizeResponse"
  /\ UNCHANGED <<cfgType, hasKey, strippedContent, lastOne, lines, result,
                 output, err, firstResult>>
  /\ UNCHANGED <<scanVars, configVars, callVars, serverVars>>

CaseOpenAI ==
  /\ pc = "generateCommand"
  /\ cfgType \in {"OpenAI", "Custom"}
  /\ hasKey
  /\ \E reply \in Replies : CallSanitize(reply)

CaseClaude ==
  /\ pc = "generateCommand"
  /\ cfgType = "Claude"
  /\ hasKey
  /\ \E reply \in Replies : CallSanitize(reply)

CaseGemini ==
  /\ pc = "generateCommand"
  /\ cfgType = "Gemini"
  /\ hasKey
  /\ \E reply \in Replies : CallSanitize(reply)

\* return content?.trim() || ""
CaseGitHub ==
  /\ pc = "generateCommand"
  /\ cfgType = "GitHub"
  /\ \E reply \in Replies :
       /\ raw' = Defined(reply)
       /\ result' = Defined(Trim(reply))
  /\ pc' = "returned"
  /\ UNCHANGED <<cfgType, hasKey, Locals, output, err, firstResult>>
  /\ UNCHANGED <<scanVars, configVars, callVars, serverVars>>

\* generateCompletion returns the trimmed content, or throws when it is empty
CaseLlamaCpp ==
  /\ pc = "generateCommand"
  /\ cfgType = "LlamaCpp"
  /\ \E reply \in Replies :
       IF Trim(reply) = <<>>
         THEN /\ pc' = "threw"
              /\ err' = "No content generated"
              /\ UNCHANGED <<cfgType, hasKey, raw, Locals, result, output,
                             firstResult>>
              /\ UNCHANGED <<scanVars, configVars, callVars, serverVars>>
         ELSE CallSanitize(Trim(reply))

CaseDefault ==
  /\ pc = "generateCommand"
  /\ cfgType \notin ProviderTypes
  /\ pc' = "exit1"
  /\ err' = "Unknown provider type"
  /\ UNCHANGED <<cfgType, hasKey, raw, Locals, result, output, firstResult>>
  /\ UNCHANGED <<scanVars, configVars, callVars, serverVars>>

\* if (!content) return ""
SanitizeEmpty ==
  /\ pc = "sanitizeResponse"
  /\ content = <<>>
  /\ result' = Defined(<<>>)
  /\ pc' = "returned"
  /\ UNCHANGED <<cfgType, hasKey, raw, Locals, output, err, firstResult>>
  /\ UNCHANGED <<scanVars, configVars, callVars, serverVars>>

StripThinkStep ==
  /\ pc = "sanitizeResponse"
  /\ content # <<>>
  /\ strippedContent' = StripThink(content)
  /\ pc' = "extract"
  /\ UNCHANGED <<cfgType, hasKey, raw, content, lastOne, lines, result,
                 output, err, firstResult>>
  /\ UNCHANGED <<scanVars, configVars, callVars, serverVars>>

ExtractStep ==
  /\ pc = "extract"
  /\ lastOne' = LastMatched(strippedContent)
  /\ strippedContent' = ExtractCode(strippedContent)
  /\ pc' = "split"
  /\ UNCHANGED <<cfgType, hasKey, raw, content, lines, result, output, err,
                 firstResult>>
  /\ UNCHANGED <<scanVars, configVars, callVars, serverVars>>

SplitStep ==
  /\ pc = "split"
  /\ lines' = TrimmedLines(strippedContent)
  /\ pc' = "select"
  /\ UNCHANGED <<cfgType, hasKey, raw, content, strippedContent, lastOne,
                 result, output, err, firstResult>>
  /\ UNCHANGED <<scanVars, configVars, callVars, serverVars>>

\* return lines.length !== 0 ? findLastCommand(lines) : ""
SelectStep ==
  /\ pc = "select"
  /\ LET r == SelectCommand(lines)
     IN  IF r.threw
           THEN /\ pc' = "threw"
                /\ err' = "TypeError"
                /\ UNCHANGED result
           ELSE /\ pc' = "returned"
                /\ result' = Defined(r.value)
                /\ UNCHANGED err
  /\ UNCHANGED <<cfgType, hasKey, raw, Locals, output, firstResult>>
  /\ UNCHANGED <<scanVars, configVars, callVars, serverVars>>

SanitizeNext ==
  \/ SanitizeEmpty
  \/ StripThinkStep
  \/ ExtractStep
  \/ SplitStep
  \/ SelectStep

\* main: if (!command) exit(1); console.log(cleanCommand)
PrintCommand ==
  /\ pc = "returned"
  /\ IF result.value = <<>>
       THEN /\ pc' = "exit1"
            /\ err' = "No command generated"
            /\ UNCHANGED output
       ELSE /\ pc' = "printed"
            /\ output' = Defined(CleanCommand(result.value))
            /\ UNCHANGED err
  /\ UNCHANGED <<cfgType, hasKey, raw, Locals, result, firstResult>>
  /\ UNCHANGED <<scanVars, configVars, callVars, serverVars>>

\* main: catch (error) { console.error(...); process.exit(1); }
CatchError ==
  /\ pc = "threw"
  /\ pc' = "exit1"
  /\ UNCHANGED <<cfgType, hasKey, raw, Locals, result, output, err,
                 firstResult>>
  /\ UNCHANGED <<scanVars, configVars, callVars, serverVars>>

Next ==
  \/ MissingApiKey
  \/ RequestFails
  \/ CaseOpenAI
  \/ CaseClaude
  \/ CaseGemini
  \/ CaseGitHub
  \/ CaseLlamaCpp
  \/ CaseDefault
  \/ SanitizeNext
  \/ PrintCommand
  \/ CatchError

Spec == Init /\ [][Next]_vars

----------------------------------------------------------------------------
\* sanitizeResponse called on its own, on every input

InitSanitize ==
  /\ pc = "sanitizeResponse"
  /\ cfgType = "none"
  /\ hasKey = FALSE
  /\ raw = Undefined
  /\ content \in SanitizeInputs
  /\ strippedContent = <<>>
  /\ lastOne = Undefined
  /\ lines = <<>>
  /\ result = Undefined
  /\ output = Undefined
  /\ err = "none"
  /\ firstResult = Undefined
  /\ NoScan /\ NoConfig /\ NoCalls /\ NoServer

SpecSanitize == InitSanitize /\ [][SanitizeNext]_vars

\* sanitizeResponse called again on what it returned
SanitizeAgain ==
  /\ pc = "returned"
  /\ ~firstResult.defined
  /\ firstResult' = result
  /\ content' = result.value
  /\ strippedContent' = <<>>
  /\ lastOne' = Undefined
  /\ lines' = <<>>
  /\ pc' = "sanitizeResponse"
  /\ UNCHANGED <<cfgType, hasKey, raw, result, output, err>>
  /\ UNCHANGED <<scanVars, configVars, callVars, serverVars>>

TwiceNext == SanitizeNext \/ SanitizeAgain

SpecTwice == InitSanitize /\ [][TwiceNext]_vars

----------------------------------------------------------------------------
\* findLastCommand called on its own, as the tests call it

InitFind ==
  /\ pc = "findLastCommand"
  /\ cfgType = "none"
  /\ hasKey = FALSE
  /\ raw = Undefined
  /\ content = <<>>
  /\ strippedContent = <<>>
  /\ lastOne = Undefined
  /\ lines \in LineArrays(MaxLines)
  /\ result = Undefined
  /\ output = Undefined
  /\ err = "none"
  /\ firstResult = Undefined
  /\ NoScan /\ NoConfig /\ NoCalls /\ NoServer

CallFindLastCommand ==
  /\ pc = "findLastCommand"
  /\ LET r == FindLastCommand(lines)
     IN  IF r.threw
           THEN /\ pc' = "threw"
                /\ err' = "TypeError"
                /\ UNCHANGED result
           ELSE /\ pc' = "returned"
                /\ result' = Defined(r.value)
                /\ UNCHANGED err
  /\ UNCHANGED <<cfgType, hasKey, raw, Locals, output, firstResult>>
  /\ UNCHANGED <<scanVars, configVars, callVars, serverVars>>

FindNext == CallFindLastCommand

SpecFind == InitFind /\ [][FindNext]_vars

----------------------------------------------------------------------------
\* lastMatched called on its own, as the tests call it: the RegExp object is
\* new (lastIndex 0); one action per evaluation of regex.exec, per
\* assignment of the loop body, and for the return

InitLastMatched ==
  /\ pc = "while"
  /\ cfgType = "none"
  /\ hasKey = FALSE
  /\ raw = Undefined
  /\ content \in ScanInputs
  /\ strippedContent = <<>>
  /\ lastOne = Undefined
  /\ lines = <<>>
  /\ result = Undefined
  /\ output = Undefined
  /\ err = "none"
  /\ firstResult = Undefined
  /\ regex \in {[source |-> p, lastIndex |-> 0] : p \in Patterns}
  /\ matched = [found |-> FALSE, index |-> 0, group |-> Undefined]
  /\ matches = 0
  /\ NoConfig /\ NoCalls /\ NoServer

\* while ((matched = regex.exec(content)))
ExecStep ==
  /\ pc = "while"
  /\ matches < MaxMatches
  /\ LET m == Exec(regex.source, content, regex.lastIndex)
     IN  /\ matched' = [found |-> m.found, index |-> m.index,
                        group |-> m.group]
         /\ regex' = [regex EXCEPT !.lastIndex = m.lastIndex]
         /\ matches' = IF m.found THEN matches + 1 ELSE matches
         /\ pc' = IF m.found THEN "assign" ELSE "return"
  /\ UNCHANGED <<mainVars, configVars, callVars, serverVars>>

\* a variant of AssignStep that keeps the first captured group
AssignFirstStep ==
  /\ pc = "assign"
  /\ lastOne' = IF lastOne.defined THEN lastOne ELSE matched.group
  /\ pc' = "while"
  /\ UNCHANGED <<cfgType, hasKey, raw, content, strippedContent, lines,
                 result, output, err, firstResult>>
  /\ UNCHANGED <<scanVars, configVars, callVars, serverVars>>

\* lastOne = matched[1]
AssignStep ==
  /\ pc = "assign"
  /\ lastOne' = matched.group
  /\ pc' = "while"
  /\ UNCHANGED <<cfgType, hasKey, raw, content, strippedContent, lines,
                 result, output, err, firstResult>>
  /\ UNCHANGED <<scanVars, configVars, callVars, serverVars>>

\* return lastOne
ReturnStep ==
  /\ pc = "return"
  /\ result' = lastOne
  /\ pc' = "returned"
  /\ UNCHANGED <<cfgType, hasKey, raw, Locals, output, err, firstResult>>
  /\ UNCHANGED <<scanVars, configVars, callVars, serverVars>>

LastMatchedNext ==
  \/ ExecStep
  \/ AssignStep
  \/ ReturnStep

SpecLastMatched == InitLastMatched /\ [][LastMatchedNext]_vars

----------------------------------------------------------------------------
\* getConfig called on its own

InitConfig ==
  /\ pc = "getConfig"
  /\ cfgType = "none"
  /\ hasKey = FALSE
  /\ raw = Undefined
  /\ content = <<>>
  /\ strippedContent = <<>>
  /\ lastOne = Undefined
  /\ lines = <<>>
  /\ result = Undefined
  /\ output = Undefined
  /\ err = "none"
  /\ firstResult = Undefined
  /\ configFile \in ConfigFiles
  /\ fsFault \in {"none", "mkdirSync", "writeFileSync"}
  /\ envApiKey \in EnvApiKeys
  /\ config = JsUndefined
  /\ errors = <<>>
  /\ exitCode = -1
  /\ NoScan /\ NoCalls /\ NoServer

\* console.error(...); console.error(...); process.exit(1)
ExitWith(messages) ==
  /\ errors' = errors \o messages
  /\ exitCode' = 1
  /\ pc' = "exited"
  /\ UNCHANGED <<configFile, fsFault, envApiKey, config>>
  /\ UNCHANGED <<mainVars, scanVars, callVars, serverVars>>

\* no config file: createConfigFile writes the defaults, and getConfig
\* returns the defaults with the key of the environment
CreateConfigFile ==
  /\ pc = "getConfig"
  /\ configFile.kind = "absent"
  /\ fsFault = "none"
  /\ configFile' = [kind |-> "written", value |-> Obj(DefaultConfigToFile)]
  /\ config' = Obj(Spread(DEFAULT_CONFIG, [apiKey |-> envApiKey]))
  /\ pc' = "returned"
  /\ UNCHANGED <<fsFault, envApiKey, errors, exitCode>>
  /\ UNCHANGED <<mainVars, scanVars, callVars, serverVars>>

\* no config file, and mkdirSync or writeFileSync throws
CreateConfigFileFails ==
  /\ pc = "getConfig"
  /\ configFile.kind = "absent"
  /\ fsFault # "none"
  /\ ExitWith(CreateErrorMessages)

\* the file is read and parsed, and the merged configuration returned
ReadConfig ==
  /\ pc = "getConfig"
  /\ configFile.kind = "parsed"
  /\ configFile.value.t = "object"
  /\ config' = Obj(MergeConfig(configFile.value.o, envApiKey))
  /\ pc' = "returned"
  /\ UNCHANGED <<configFile, fsFault, envApiKey, errors, exitCode>>
  /\ UNCHANGED <<mainVars, scanVars, callVars, serverVars>>

\* a variant of ReadConfigFails without process.exit: the errors are
\* logged and the defaults returned
ReadConfigFailsReturns ==
  /\ pc = "getConfig"
  /\ configFile.kind \in {"unreadable", "invalid"}
  /\ errors' = errors \o ReadErrorMessages
  /\ config' = Obj(Spread(DEFAULT_CONFIG, [apiKey |-> envApiKey]))
  /\ pc' = "returned"
  /\ UNCHANGED <<configFile, fsFault, envApiKey, exitCode>>
  /\ UNCHANGED <<mainVars, scanVars, callVars, serverVars>>

\* readFileSync or JSON.parse throws
ReadConfigFails ==
  /\ pc = "getConfig"
  /\ configFile.kind \in {"unreadable", "invalid"}
  /\ ExitWith(ReadErrorMessages)

\* the file parses to null: userConfig.apiKey throws a TypeError inside the
\* same try block
MergeThrows ==
  /\ pc = "getConfig"
  /\ configFile.kind = "parsed"
  /\ configFile.value = JsNull
  /\ ExitWith(ReadErrorMessages)

ConfigNext ==
  \/ CreateConfigFile
  \/ CreateConfigFileFails
  \/ ReadConfig
  \/ ReadConfigFails
  \/ MergeThrows

SpecConfig == InitConfig /\ [][ConfigNext]_vars

----------------------------------------------------------------------------
\* Several calls of sanitizeResponse, their steps interleaved in any order.
\* Each call has its own locals (calls[c]); a RegExp object lives on the
\* heap, which holds its lastIndex.

Frame(input) ==
  [pc |-> "sanitizeResponse", content |-> input, strippedContent |-> <<>>,
   codeBlockRegex |-> 0,
   matched |-> [found |-> FALSE, index |-> 0, group |-> Undefined],
   lastOne |-> Undefined, lines |-> <<>>, result |-> Undefined]

InitCalls ==
  /\ pc = "calls"
  /\ cfgType = "none"
  /\ hasKey = FALSE
  /\ raw = Undefined
  /\ content = <<>>
  /\ strippedContent = <<>>
  /\ lastOne = Undefined
  /\ lines = <<>>
  /\ result = Undefined
  /\ output = Undefined
  /\ err = "none"
  /\ firstResult = Undefined
  /\ calls \in [1..MaxCalls -> {Frame(input) : input \in CallInputs}]
  /\ heap = [r \in 1..MaxCalls |-> 0]
  /\ NoScan /\ NoConfig /\ NoServer

\* if (!content) return ""
CallEmpty(c) ==
  /\ calls[c].pc = "sanitizeResponse"
  /\ calls[c].content = <<>>
  /\ calls' = [calls EXCEPT ![c].result = Defined(<<>>),
                            ![c].pc = "returned"]
  /\ UNCHANGED <<pc, heap, mainVars, scanVars, configVars, serverVars>>

\* let strippedContent = content.replace(thinkPattern, "")
CallStripThink(c) ==
  /\ calls[c].pc = "sanitizeResponse"
  /\ calls[c].content # <<>>
  /\ calls' = [calls EXCEPT
                 ![c].strippedContent = StripThink(calls[c].content),
                 ![c].pc = "codeBlockRegex"]
  /\ UNCHANGED <<pc, heap, mainVars, scanVars, configVars, serverVars>>

\* a variant of NewCodeBlockRegex with the pattern hoisted out of the
\* function: every call uses the one RegExp object, with the cursor as the
\* last exec left it
HoistedCodeBlockRegex(h, c) == [heap |-> h, ref |-> 1]

\* const codeBlockRegex = /.../g in call c, the heap being h: the literal
\* makes a new RegExp object, its lastIndex 0, each time it is evaluated
NewCodeBlockRegex(h, c) == [heap |-> [h EXCEPT ![c] = 0], ref |-> c]

CallNewRegex(c) ==
  /\ calls[c].pc = "codeBlockRegex"
  /\ LET new == NewCodeBlockRegex(heap, c)
     IN  /\ heap' = new.heap
         /\ calls' = [calls EXCEPT ![c].codeBlockRegex = new.ref,
                                   ![c].pc = "while"]
  /\ UNCHANGED <<pc, mainVars, scanVars, configVars, serverVars>>

\* lastMatched: while ((matched = regex.exec(content)))
CallExec(c) ==
  /\ calls[c].pc = "while"
  /\ LET r == calls[c].codeBlockRegex
         m == Exec(CodeBlockPattern, calls[c].strippedContent, heap[r])
     IN  /\ heap' = [heap EXCEPT ![r] = m.lastIndex]
         /\ calls' = [calls EXCEPT
                        ![c].matched = [found |-> m.found, index |-> m.index,
                                        group |-> m.group],
                        ![c].pc = IF m.found THEN "assign" ELSE "fallback"]
  /\ UNCHANGED <<pc, mainVars, scanVars, configVars, serverVars>>

\* lastMatched: lastOne = matched[1]
CallAssign(c) ==
  /\ calls[c].pc = "assign"
  /\ calls' = [calls EXCEPT ![c].lastOne = calls[c].matched.group,
                            ![c].pc = "while"]
  /\ UNCHANGED <<pc, heap, mainVars, scanVars, configVars, serverVars>>

\* strippedContent = lastMatched(...) || strippedContent.replace(/BACKTICK/g, "")
CallFallback(c) ==
  /\ calls[c].pc = "fallback"
  /\ calls' = [calls EXCEPT
                 ![c].strippedContent =
                    IF Truthy(calls[c].lastOne)
                      THEN calls[c].lastOne.value
                      ELSE RemoveBackticks(calls[c].strippedContent),
                 ![c].pc = "split"]
  /\ UNCHANGED <<pc, heap, mainVars, scanVars, configVars, serverVars>>

CallSplit(c) ==
  /\ calls[c].pc = "split"
  /\ calls' = [calls EXCEPT
                 ![c].lines = TrimmedLines(calls[c].strippedContent),
                 ![c].pc = "select"]
  /\ UNCHANGED <<pc, heap, mainVars, scanVars, configVars, serverVars>>

\* return lines.length !== 0 ? findLastCommand(lines) : ""
CallSelect(c) ==
  /\ calls[c].pc = "select"
  /\ LET r == SelectCommand(calls[c].lines)
     IN  calls' = [calls EXCEPT
                     ![c].result = IF r.threw THEN Undefined
                                   ELSE Defined(r.value),
                     ![c].pc = IF r.threw THEN "threw" ELSE "returned"]
  /\ UNCHANGED <<pc, heap, mainVars, scanVars, configVars, serverVars>>

CallsNext ==
  \E c \in 1..MaxCalls :
    \/ CallEmpty(c)
    \/ CallStripThink(c)
    \/ CallNewRegex(c)
    \/ CallExec(c)
    \/ CallAssign(c)
    \/ CallFallback(c)
    \/ CallSplit(c)
    \/ CallSelect(c)

SpecCalls == InitCalls /\ [][CallsNext]_vars

----------------------------------------------------------------------------
\* LlamaCppServerManager.startServer (index.ts).  What the environment and
\* the health endpoint answer is chosen freely at each step.

\* let retries = 30
Retries == 30

\* the most health polls after the spawn the model follows
MaxPolls == 31

InitServer ==
  /\ pc = "startServer"
  /\ cfgType = "LlamaCpp"
  /\ hasKey = FALSE
  /\ raw = Undefined
  /\ content = <<>>
  /\ strippedContent = <<>>
  /\ lastOne = Undefined
  /\ lines = <<>>
  /\ result = Undefined
  /\ output = Undefined
  /\ err = "none"
  /\ firstResult = Undefined
  /\ isRunning \in BOOLEAN
  /\ serverProcess = "null"
  /\ retries = 0
  /\ polls = 0
  /\ NoScan /\ NoConfig /\ NoCalls

\* if (this.isRunning) return
AlreadyRunning ==
  /\ pc = "startServer"
  /\ isRunning
  /\ pc' = "returned"
  /\ UNCHANGED <<serverVars, mainVars, scanVars, configVars, callVars>>

\* if (!llamaDir) throw
LlamaDirNotSet ==
  /\ pc = "startServer"
  /\ ~isRunning
  /\ pc' = "threw"
  /\ err' = "LLAMA_DIR environment variable not set"
  /\ UNCHANGED <<cfgType, hasKey, raw, Locals, result, output, firstResult>>
  /\ UNCHANGED <<serverVars, scanVars, configVars, callVars>>

LlamaDirSet ==
  /\ pc = "startServer"
  /\ ~isRunning
  /\ pc' = "version"
  /\ UNCHANGED <<serverVars, mainVars, scanVars, configVars, callVars>>

\* llama-server --version fails
ServerNotFound ==
  /\ pc = "version"
  /\ pc' = "threw"
  /\ err' = "llama-server not found"
  /\ UNCHANGED <<cfgType, hasKey, raw, Locals, result, output, firstResult>>
  /\ UNCHANGED <<serverVars, scanVars, configVars, callVars>>

ServerFound ==
  /\ pc = "version"
  /\ pc' = "health"
  /\ UNCHANGED <<serverVars, mainVars, scanVars, configVars, callVars>>

\* a server answers the first health request: isRunning = true; return
HealthOk ==
  /\ pc = "health"
  /\ isRunning' = TRUE
  /\ pc' = "returned"
  /\ UNCHANGED <<serverProcess, retries, polls>>
  /\ UNCHANGED <<mainVars, scanVars, configVars, callVars>>

\* the first health request fails or is answered non-OK
HealthNotOk ==
  /\ pc = "health"
  /\ pc' = "spawn"
  /\ UNCHANGED <<serverVars, mainVars, scanVars, configVars, callVars>>

\* this.serverProcess = Bun.spawn(...); let retries = 30
Spawn ==
  /\ pc = "spawn"
  /\ serverProcess' = "spawned"
  /\ retries' = Retries
  /\ polls' = 0
  /\ pc' = "poll"
  /\ UNCHANGED isRunning
  /\ UNCHANGED <<mainVars, scanVars, configVars, callVars>>

\* in the loop, the health request throws: catch { retries-- }
PollFails ==
  /\ pc = "poll"
  /\ retries > 0
  /\ polls < MaxPolls
  /\ polls' = polls + 1
  /\ retries' = retries - 1
  /\ UNCHANGED <<pc, isRunning, serverProcess>>
  /\ UNCHANGED <<mainVars, scanVars, configVars, callVars>>

\* in the loop, the health request is answered non-OK: nothing is thrown and
\* the loop goes round
PollNotOk ==
  /\ pc = "poll"
  /\ retries > 0
  /\ polls < MaxPolls
  /\ polls' = polls + 1
  /\ UNCHANGED <<pc, isRunning, serverProcess, retries>>
  /\ UNCHANGED <<mainVars, scanVars, configVars, callVars>>

\* in the loop, the health request is answered OK
PollOk ==
  /\ pc = "poll"
  /\ retries > 0
  /\ polls < MaxPolls
  /\ polls' = polls + 1
  /\ isRunning' = TRUE
  /\ pc' = "returned"
  /\ UNCHANGED <<serverProcess, retries>>
  /\ UNCHANGED <<mainVars, scanVars, configVars, callVars>>

\* the loop ends: throw new Error("Failed to start Llama.cpp server")
GiveUp ==
  /\ pc = "poll"
  /\ retries = 0
  /\ pc' = "threw"
  /\ err' = "Failed to start Llama.cpp server"
  /\ UNCHANGED <<cfgType, hasKey, raw, Locals, result, output, firstResult>>
  /\ UNCHANGED <<serverVars, scanVars, configVars, callVars>>

ServerNext ==
  \/ AlreadyRunning
  \/ LlamaDirNotSet
  \/ LlamaDirSet
  \/ ServerNotFound
  \/ ServerFound
  \/ HealthOk
  \/ HealthNotOk
  \/ Spawn
  \/ PollFails
  \/ PollNotOk
  \/ PollOk
  \/ GiveUp

SpecServer == InitServer /\ [][ServerNext]_vars

----------------------------------------------------------------------------
\* Claims about sanitizeResponse, checked under SpecSanitize

\* C1: whatever the input, the value sanitizeResponse returns is empty or one
\* trimmed line: it holds no newline character and neither starts nor ends
\* with whitespace.
C1_OneTrimmedLine ==
  pc = "returned" =>
    /\ result.defined
    /\ \A i \in 1..Len(result.value) : result.value[i] # "\n"
    /\ result.value # <<>> =>
         /\ result.value[1] \notin WhiteSpace
         /\ result.value[Len(result.value)] \notin WhiteSpace

\* C1 witness: an input of several lines, with whitespace around the line
\* that is selected, has been sanitized to a non-empty command
C1_Witness ==
  /\ pc = "returned"
  /\ result.value # <<>>
  /\ \E i \in 1..Len(content) : content[i] = "\n"
  /\ \E i \in 1..(Len(content) - 1) :
       content[i] \notin WhiteSpace /\ content[i + 1] = " "
  /\ content[1] \in WhiteSpace

\* every character of s is whitespace: s has no non-blank line
AllBlank(s) == \A i \in 1..Len(s) : s[i] \in WhiteSpace

\* C2: sanitizeResponse returns the empty string exactly when the input is
\* empty or no non-blank line remains after think stripping and fence
\* extraction (or the backtick fallback).
C2_EmptyIffNoLine ==
  pc = "returned" =>
    (result.value = <<>> <=> (content = <<>> \/ AllBlank(strippedContent)))

\* C2 witness: a non-empty input reduced to blank text, and so to ""
C2_Witness ==
  /\ pc = "returned"
  /\ content # <<>>
  /\ strippedContent # <<>>
  /\ AllBlank(strippedContent)
  /\ result.value = <<>>

\* C3: sanitizeResponse never ends in an error: no step throws, the call is
\* always at one of its stages, and at the end it has returned a string.
C3_NeverThrows ==
  /\ pc \in {"sanitizeResponse", "extract", "split", "select", "returned"}
  /\ err = "none"
  /\ pc = "returned" => result.defined

\* C3 witness: an input of tags, backticks and spaces alone, which leaves no
\* line for findLastCommand, has returned
C3_Witness ==
  /\ pc = "returned"
  /\ content # <<>>
  /\ \E i \in 1..Len(content) : content[i] = Backtick
  /\ \E i \in 1..Len(content) : content[i] = "<"
  /\ lines = <<>>
  /\ result = Defined(<<>>)

\* C4: whenever the think-stripped text holds a fenced block, the result is
\* selected from the body of the last fenced block and from nothing else.
C4_LastFenceWins ==
  (pc = "returned" /\ lastOne.defined) =>
    result.value = SelectCommand(TrimmedLines(lastOne.value)).value

\* the index just after the think block that opens at index p: the end of
\* the first closing think tag that follows the opening tag at p; 0 when no
\* opening tag stands at p or no closing tag follows it
BlockEndAt(s, p) ==
  LET o == OpenTagEnd(s, p)
      closes == {c \in o..Len(s) : CloseTagEnd(s, c) # 0}
  IN  IF o = 0 \/ closes = {} THEN 0
      ELSE CloseTagEnd(s, MinOf(closes))

\* s from index i on, read left to right: a think block is skipped whole,
\* every other character is kept
RECURSIVE OutsideBlocks(_, _)
OutsideBlocks(s, i) ==
  IF i > Len(s) THEN <<>>
  ELSE IF BlockEndAt(s, i) # 0 THEN OutsideBlocks(s, BlockEndAt(s, i))
  ELSE <<s[i]>> \o OutsideBlocks(s, i + 1)

\* C7: think stripping removes every think block, from its opening tag
\* through the first closing tag after it, block after block from the left,
\* and keeps all other text; tags may be in any letter case, hold attributes
\* and spaces, and span lines; the reasoning-trace example gives "ls -la".
C7_ThinkBlocksRemoved ==
  /\ pc = "extract" =>
       IF \A i \in 1..Len(content) : content[i] # "<"
         THEN strippedContent = content
         ELSE strippedContent = OutsideBlocks(content, 1)
  /\ (pc = "extract" /\ content = ThinkMultiLine) =>
       strippedContent = <<"l","s","\n">>
  /\ (pc = "returned" /\ content = ThinkExample) =>
       result.value = <<"l","s"," ","-","l","a">>

\* C7 witness: two blocks, one over several lines with an upper-case tag
\* that holds an attribute, have been removed and the text between is kept
C7_Witness ==
  /\ pc = "extract"
  /\ content = ThinkMultiLine
  /\ BlockEndAt(content, 1) > 1
  /\ strippedContent = <<"l","s","\n">>

\* the think-stripped text holds no fenced block
NoFencedBlock(s) == \A i \in 1..Len(s) : FenceCloseAt(s, i) = 0

\* how many of the first p characters of s are no backticks
Rank(s, p) == Cardinality({q \in 1..p : s[q] # Backtick})

\* C10: when the think-stripped text holds no fenced block, the text handed
\* to line selection is that text without its backticks, every other
\* character kept in order, and the result is selected from its lines:
\* the inline-backtick example gives "ls is the command".
C10_BacktickFallback ==
  /\ (pc = "split" /\ NoFencedBlock(StripThink(content))) =>
       LET before == StripThink(content)
       IN  /\ \A i \in 1..Len(strippedContent) : strippedContent[i] # Backtick
           /\ Len(strippedContent) = Rank(before, Len(before))
           /\ \A p \in 1..Len(before) :
                before[p] # Backtick =>
                  strippedContent[Rank(before, p)] = before[p]
  /\ (pc = "returned" /\ content # <<>>
        /\ NoFencedBlock(StripThink(content))) =>
       result.value = SelectCommand(TrimmedLines(strippedContent)).value
  /\ (pc = "returned" /\ content = InlineBackticks) =>
       result.value = <<"l","s"," ","i","s"," ","t","h","e"," ",
                        "c","o","m","m","a","n","d">>

\* C10 witness: a text without fenced block but with backticks between other
\* characters is ready to be split into lines
C10_Witness ==
  /\ pc = "split"
  /\ NoFencedBlock(StripThink(content))
  /\ Cardinality({i \in 1..Len(content) : content[i] = Backtick}) >= 2
  /\ strippedContent # <<>>
  /\ Len(strippedContent) < Len(StripThink(content))

\* an opening think tag stands at index p of s and no closing think tag
\* begins after it
UnclosedTagAt(s, p) ==
  /\ OpenTagEnd(s, p) # 0
  /\ \A c \in p..Len(s) : CloseTagEnd(s, c) = 0

\* the last n characters of s
Suffix(s, n) == SubSeq(s, Len(s) - n + 1, Len(s))

\* C11: an opening think tag with no closing think tag after it is left
\* untouched: the think-stripped text ends with the input from that tag
\* onward, nothing of it removed; and an input that holds no think tag at
\* all, opening or closing, leaves the stripping stage unchanged.
C11_UnclosedTagKept ==
  pc = "extract" =>
    /\ \A p \in 1..Len(content) :
         UnclosedTagAt(content, p) =>
           /\ Len(strippedContent) >= Len(content) - p + 1
           /\ Suffix(strippedContent, Len(content) - p + 1) =
                SubSeq(content, p, Len(content))
    /\ (\A i \in 1..Len(content) :
          OpenTagEnd(content, i) = 0 /\ CloseTagEnd(content, i) = 0) =>
         strippedContent = content

\* C11 witness: a block has been removed in front of an opening tag that is
\* never closed, and the input from that tag onward is all that is left
C11_Witness ==
  /\ pc = "extract"
  /\ \E p \in 2..Len(content) :
       /\ UnclosedTagAt(content, p)
       /\ p < Len(content) - 6
       /\ strippedContent = SubSeq(content, p, Len(content))
  /\ Len(strippedContent) < Len(content)

----------------------------------------------------------------------------
\* Claims about findLastCommand, checked under SpecFind

\* the greatest element of a non-empty set of integers
MaxOf(S) == CHOOSE x \in S : \A y \in S : x >= y

\* the indices of line at which a word begins
WordStarts(line) ==
  {i \in 1..Len(line) :
     line[i] \in WordChars /\ (i > 1 => line[i - 1] \notin WordChars)}

\* the word w, in any letter case, fills line from index i to a word end
WholeWordAt(line, i, w) ==
  /\ i + Len(w) - 1 <= Len(line)
  /\ \A k \in 1..Len(w) : ToLower(line[i + k - 1]) = w[k]
  /\ i + Len(w) <= Len(line) => line[i + Len(w)] \notin WordChars

\* a line is a sentence as the claim words it
IsSentence(line) ==
  \/ /\ line # <<>>
     /\ line[1] \in UpperCase
     /\ line[Len(line)] \in {".", "?", "!"}
  \/ \E i \in WordStarts(line) : \E w \in Keywords : WholeWordAt(line, i, w)

\* the indices of the lines findLastCommand may select
Qualifying(ls) ==
  {i \in 1..Len(ls) : ~IsSentence(ls[i]) /\ Len(ls[i]) <= MaxLineLength}

\* C5: on a non-empty array findLastCommand always returns a string: the
\* line of the highest index that is no sentence and at most 2000 long,
\* trimmed, or the last line, trimmed, when no line qualifies.
C5_LastQualifyingLine ==
  (pc # "findLastCommand" /\ lines # <<>>) =>
    /\ pc = "returned"
    /\ result.defined
    /\ LET q == Qualifying(lines)
       IN  result.value =
             IF q # {} THEN Trim(lines[MaxOf(q)]) ELSE Trim(lines[Len(lines)])

\* C5 witness: the last line is too long, the one before it is a sentence,
\* and the first line has been returned, trimmed
C5_Witness ==
  /\ pc = "returned"
  /\ Len(lines) = 3
  /\ Len(lines[3]) > MaxLineLength
  /\ ~IsSentence(lines[3])
  /\ IsSentence(lines[2])
  /\ lines[1] # Trim(lines[1])
  /\ result.value = Trim(lines[1])

\* C6: findLastCommand on an empty array returns the empty string.
C6_EmptyArrayGivesEmpty ==
  (pc # "findLastCommand" /\ lines = <<>>) =>
    (pc = "returned" /\ result = Defined(<<>>))

----------------------------------------------------------------------------
\* Claims about lastMatched, checked under SpecLastMatched

\* the indices of s at which a match of pattern p starts
MatchStarts(p, s) ==
  {i \in 1..(Len(s) + 1) : MatchAtIndex(p, s, i).found}

\* C12: lastMatched(pattern, content), for a global pattern with one capture
\* group, returns the captured group of the last match: of a match after
\* which no further match begins; it returns undefined when the content
\* has no match, and so when the content is empty; for the code block
\* pattern it returns what sanitizeResponse takes as the last block, and on
\* the contents of the tests what the tests expect.
C12_LastMatchReturned ==
  pc = "returned" =>
    LET p == regex.source
        at == MatchStarts(p, content)
    IN  /\ at = {} => result = Undefined
        /\ (at # {} /\ p.kind # "literal") =>
             \E i \in at :
               /\ result = MatchAtIndex(p, content, i).group
               /\ \A j \in at : j < MatchAtIndex(p, content, i).end
        /\ (content = <<>> /\ p = TestPattern) => result = Undefined
        /\ p = CodeBlockPattern => result = LastMatched(content)
        /\ (p = ParagraphPattern /\ content = ThreeParagraphs) =>
             result = Defined(<<"T","h","i","r","d"," ","p","a","r","a","g",
                                "r","a","p","h",".">>)
        /\ (p = InlineFencePattern /\ content = SingleInlineFence) =>
             result = Defined(SubSeq(content, 4, Len(content) - 3))
        /\ (p = ParagraphPattern /\ content = NoParagraph) =>
             result = Undefined

\* C12 witness: the loop has found several paragraphs and lastMatched has
\* returned the non-empty body of one of them
C12_Witness ==
  /\ pc = "returned"
  /\ regex.source = ParagraphPattern
  /\ matches >= 2
  /\ result.defined
  /\ result.value # <<>>

\* C17: the loop of lastMatched ends for every global pattern and every
\* content: each evaluation of regex.exec that finds a match leaves the
\* cursor beyond the place the match was found at, also for a pattern that
\* can match the empty string, so no more than Len(content) + 1 matches are
\* found; every match of the code block pattern is non-empty.
C17_ScanTerminates ==
  /\ matches <= Len(content) + 1
  /\ (pc = "assign" /\ regex.source = SpacesPattern) =>
       regex.lastIndex > matched.index \/ matches = 1
  /\ (pc = "assign" /\ regex.source = CodeBlockPattern) =>
       regex.lastIndex > matched.index

----------------------------------------------------------------------------
\* Claims about getConfig, checked under SpecConfig

\* the configuration the claim describes for a user's file u and the
\* environment key env: the defaults, each key of u over them, apiKey the
\* file's when it is non-empty and env otherwise, and in context every
\* default field, the user's value over it where the user gives one
ClaimedConfig(u, env) ==
  [k \in DOMAIN DEFAULT_CONFIG \cup DOMAIN u \cup {"apiKey"} |->
     IF k = "apiKey"
       THEN IF "apiKey" \in DOMAIN u /\ u.apiKey.t = "string"
                 /\ u.apiKey.s # ""
              THEN u.apiKey ELSE env
     ELSE IF k = "context"
       THEN IF "context" \in DOMAIN u /\ u.context.t = "object"
              THEN Obj([f \in DOMAIN DEFAULT_CONTEXT_CONFIG
                              \cup DOMAIN u.context.o |->
                          IF f \in DOMAIN u.context.o
                            THEN u.context.o[f]
                            ELSE DEFAULT_CONTEXT_CONFIG[f]])
              ELSE Obj(DEFAULT_CONTEXT_CONFIG)
     ELSE IF k \in DOMAIN u THEN u[k]
     ELSE DEFAULT_CONFIG[k]]

\* the keys of a parsed file: null has none
KeysOf(j) == IF j.t = "object" THEN j.o ELSE EmptyObject

\* C13 as stated: whenever the config file exists and parses, getConfig
\* returns the defaults overridden key by key by the file, with apiKey the
\* file's non-empty apiKey or else OPENAI_API_KEY, and with every default
\* context field filled in.
C13_ParsedFileMerged ==
  (pc # "getConfig" /\ configFile.kind = "parsed") =>
    /\ pc = "returned"
    /\ config = Obj(ClaimedConfig(KeysOf(configFile.value), envApiKey))

\* C13 as amended: the same, whenever the config file exists and parses to
\* a JSON object; the file with the one key apiKey "123" gives the
\* configuration the test expects.
C13_ObjectFileMerged ==
  /\ (pc # "getConfig" /\ configFile.kind = "parsed"
        /\ configFile.value.t = "object") =>
       /\ pc = "returned"
       /\ config = Obj(ClaimedConfig(configFile.value.o, envApiKey))
       /\ \A f \in DOMAIN DEFAULT_CONTEXT_CONFIG :
            f \in DOMAIN config.o.context.o
  /\ (pc # "getConfig"
        /\ configFile = [kind |-> "parsed",
                         value |-> Obj([apiKey |-> Str("123")])]) =>
       config = Obj([type |-> Str("OpenAI"), model |-> Str("gpt-4.1"),
                     context |-> Obj([enabled |-> Bool(FALSE),
                                      maxHistoryCommands |-> Num(10)]),
                     apiKey |-> Str("123")])

\* C13 witness: a file with a type, an empty apiKey and a partial context
\* has been merged: the key comes from the environment and the context
\* holds the user's field beside a default one
C13_Witness ==
  /\ pc = "returned"
  /\ configFile.kind = "parsed"
  /\ configFile.value.t = "object"
  /\ Get(configFile.value.o, "type") = Str("Gemini")
  /\ Get(configFile.value.o, "apiKey") = Str("")
  /\ Get(configFile.value.o, "context") = Obj([enabled |-> Bool(TRUE)])
  /\ config.o.type = Str("Gemini")
  /\ config.o.apiKey = Str("env-api-key")
  /\ config.o.context =
       Obj([enabled |-> Bool(TRUE), maxHistoryCommands |-> Num(10)])

\* C14: when reading or parsing the config file fails, getConfig returns
\* no configuration: exactly two messages are logged and the process exits
\* with status 1; and when no file exists and creating it fails, in mkdirSync
\* or in writeFileSync, two messages are logged and the process exits with
\* status 1.
C14_FailureExits ==
  /\ (pc # "getConfig" /\ configFile.kind \in {"unreadable", "invalid"}) =>
       /\ pc = "exited"
       /\ config = JsUndefined
       /\ Len(errors) = 2
       /\ errors = ReadErrorMessages
       /\ exitCode = 1
  /\ (pc # "getConfig" /\ configFile.kind = "absent"
        /\ fsFault \in {"mkdirSync", "writeFileSync"}) =>
       /\ pc = "exited"
       /\ config = JsUndefined
       /\ Len(errors) = 2
       /\ errors = CreateErrorMessages
       /\ exitCode = 1

\* C14 witness: the file did not parse and getConfig has exited
C14_Witness ==
  /\ pc = "exited"
  /\ configFile.kind = "invalid"
  /\ Len(errors) = 2
  /\ exitCode = 1

----------------------------------------------------------------------------
\* Claims about interleaved calls of sanitizeResponse, checked under
\* SpecCalls

\* C15: calls of sanitizeResponse are independent: however the steps of the
\* calls are interleaved or sequenced, no call throws, each call that has
\* returned has the result of that call run alone on its input, and calls
\* on the same input have the same result.
C15_CallsIndependent ==
  \A c \in 1..MaxCalls :
    /\ calls[c].pc # "threw"
    /\ calls[c].pc = "returned" =>
         /\ calls[c].result =
              Defined(SanitizeResponse(calls[c].content).value)
         /\ \A d \in 1..MaxCalls :
              (calls[d].pc = "returned"
                 /\ calls[d].content = calls[c].content) =>
                calls[d].result = calls[c].result

\* C15 witness: one call has returned the line of its last fenced block
\* while another call, on another input, is inside its loop with the cursor
\* of its own pattern behind a match
C15_Witness ==
  \E c, d \in 1..MaxCalls :
    /\ c # d
    /\ calls[c].pc = "returned"
    /\ calls[c].lastOne.defined
    /\ calls[c].result.value # <<>>
    /\ calls[d].pc = "assign"
    /\ calls[d].content # calls[c].content
    /\ heap[calls[d].codeBlockRegex] > 0

----------------------------------------------------------------------------
\* Claims about startServer, checked under SpecServer

\* C16: once the server process is spawned, startServer finishes within the
\* 30 polls of the health endpoint, whatever the endpoint does: no poll
\* beyond the thirtieth is made; when the call has returned isRunning is
\* true, and when it throws after the spawn the error is "Failed to start
\* Llama.cpp server".
C16_FinishesWithinRetries ==
  /\ polls <= Retries
  /\ pc = "returned" => isRunning
  /\ (pc = "threw" /\ serverProcess = "spawned") =>
       err = "Failed to start Llama.cpp server"

----------------------------------------------------------------------------
\* Claims about generateCommand, checked under Spec

\* C8: for every provider type, what generateCommand returns is
\* sanitizeResponse of the raw text of the provider.
C8_EveryReplySanitized ==
  pc = "returned" => result = Defined(SanitizeResponse(raw.value).value)

----------------------------------------------------------------------------
\* Claims about sanitizeResponse applied twice, checked under SpecTwice

NoFence(s) == \A i \in 1..Len(s) : ~MatchAt(s, i, Fence)

NoBackticks(s) == \A i \in 1..Len(s) : s[i] # Backtick

NoThinkTag(s) ==
  \A i \in 1..Len(s) : OpenTagEnd(s, i) = 0 /\ CloseTagEnd(s, i) = 0

\* C9 as stated: sanitize(sanitize(x)) = sanitize(x) whenever sanitize(x) is
\* non-empty and holds no fence, no think tag and no sentence marker.
C9_IdempotentWithoutFences ==
  (/\ pc = "returned"
   /\ firstResult.defined
   /\ firstResult.value # <<>>
   /\ NoFence(firstResult.value)
   /\ NoThinkTag(firstResult.value)
   /\ ~LooksLikeSentence(firstResult.value)) => result = firstResult

\* C9 as amended: sanitize(sanitize(x)) = sanitize(x) whenever sanitize(x) is
\* non-empty and holds no backtick at all, no think tag and no sentence
\* marker.
C9_IdempotentWithoutBackticks ==
  (/\ pc = "returned"
   /\ firstResult.defined
   /\ firstResult.value # <<>>
   /\ NoBackticks(firstResult.value)
   /\ NoThinkTag(firstResult.value)
   /\ ~LooksLikeSentence(firstResult.value)) => result = firstResult

\* C9 witness: a clean non-empty result has been sanitized a second time
C9_Witness ==
  /\ pc = "returned"
  /\ firstResult.defined
  /\ firstResult.value # <<>>
  /\ NoBackticks(firstResult.value)
  /\ NoThinkTag(firstResult.value)
  /\ ~LooksLikeSentence(firstResult.value)
  /\ lines = <<firstResult.value>>
  /\ result = firstResult

====
